---- MODULE Spec2Model ----
(***************************************************************************)
(* The turn loop of the coding agent (agent.py main_loop), its tool        *)
(* dispatcher (execute_tool), the diff preview (display_diff) and the      *)
(* file tools of tools.py.                                                 *)
(*                                                                         *)
(* Python values are tagged records: [t |-> "None"], [t |-> "str", s],     *)
(* [t |-> "num", n], [t |-> "list"] (a non-empty list), [t |-> "obj", f]   *)
(* (a dict, f its key -> value function).  A text is                       *)
(* [t |-> "text", open, close, cut, body]: body is what the text holds,    *)
(* open / close say whether it starts with ```json / ends with ```, and    *)
(* cut says that the last three characters of the body have been removed.  *)
(***************************************************************************)
EXTENDS Integers, Sequences, FiniteSets, TLC

\* Bound on the --max-turns values that are explored.
MaxTurns == 2

VARIABLES pc, max_turns, corrector_client, turn, history, response_text,
          response_json, fs, calls, dispatches, generations, collection

vars == <<pc, max_turns, corrector_client, turn, history, response_text,
          response_json, fs, calls, dispatches, generations,
          collection>>

----------------------------------------------------------------------------
\* Python values

None == [t |-> "None"]
Str(s) == [t |-> "str", s |-> s]
Num(n) == [t |-> "num", n |-> n]
List == [t |-> "list"]
Obj(f) == [t |-> "obj", f |-> f]
EmptyDict == Obj(<<>>)
Garbage == [t |-> "garbage"]

IsDict(v) == v.t = "obj"
IsStr(v) == v.t = "str"

\* dict.get(key, default)
Get(d, key, default) == IF key \in DOMAIN d.f THEN d.f[key] ELSE default

\* bool(v), as used by `if not tool_name`
Truthy(v) ==
    CASE v.t = "None" -> FALSE
      [] v.t = "str"  -> v.s # ""
      [] v.t = "num"  -> v.n # 0
      [] v.t = "list" -> TRUE
      [] v.t = "obj"  -> DOMAIN v.f # {}
      [] OTHER        -> TRUE

\* hash(v) is defined: lists and dicts raise TypeError as dictionary keys
Hashable(v) == v.t \notin {"list", "obj"}

----------------------------------------------------------------------------
\* Texts: fence stripping, json.loads, json.dumps

Text(open, close, body) ==
    [t |-> "text", open |-> open, close |-> close, cut |-> FALSE, body |-> body]
Bare(body) == Text(FALSE, FALSE, body)
Fenced(body) == Text(TRUE, TRUE, body)

\* response_text.strip()[7:-3].strip() when the text starts with ```json:
\* the first seven and the last three characters go, fence or not.
StripFence(text) ==
    IF text.open
    THEN [text EXCEPT !.open = FALSE, !.close = FALSE, !.cut = ~text.close]
    ELSE text

\* json.loads(text) returns (does not raise JSONDecodeError)
Decodes(text) ==
    /\ ~text.open
    /\ ~text.close
    /\ ~text.cut
    /\ text.body.t # "garbage"

\* json.loads(text), where it decodes
Loads(text) == text.body

\* json.dumps(value, indent=2)
Dumps(value) == Bare(value)

----------------------------------------------------------------------------
\* Paths.  A path is a sequence of characters; "/" separates components and
\* ".." is written as one character.

\* os.path.abspath(config.CODEBASE_DIR)
CODEBASE_DIR == <<"/", "p">>

PathA == <<"a">>
PathEscape == <<"..", "/", "e">>
PathSibling == <<"..", "/", "p", "2", "/", "a">>

\* os.path.join(a, b)
Join(a, b) ==
    IF b # <<>> /\ Head(b) = "/" THEN b
    ELSE IF a # <<>> /\ a[Len(a)] = "/" THEN a \o b
    ELSE a \o <<"/">> \o b

RECURSIVE Split(_, _, _)
\* path.split("/"): the components of s, cur being the one under way
Split(s, cur, acc) ==
    IF s = <<>> THEN Append(acc, cur)
    ELSE IF Head(s) = "/" THEN Split(Tail(s), <<>>, Append(acc, cur))
    ELSE Split(Tail(s), Append(cur, Head(s)), acc)

RECURSIVE Resolve(_, _)
\* normpath's pass over the components: "" and "." vanish, ".." pops
Resolve(comps, stack) ==
    IF comps = <<>> THEN stack
    ELSE LET c == Head(comps) IN
         IF c = <<>> \/ c = <<".">> THEN Resolve(Tail(comps), stack)
         ELSE IF c = <<"..">>
              THEN Resolve(Tail(comps),
                           IF stack = <<>> THEN stack
                           ELSE SubSeq(stack, 1, Len(stack) - 1))
              ELSE Resolve(Tail(comps), Append(stack, c))

RECURSIVE Unsplit(_)
Unsplit(comps) ==
    IF comps = <<>> THEN <<>>
    ELSE <<"/">> \o Head(comps) \o Unsplit(Tail(comps))

\* os.path.abspath(p) for an absolute p: split, resolve, join again, each
\* stage computed once from the value of the stage before
Abspath(p) ==
    CHOOSE out \in
        { IF r = <<>> THEN <<"/">> ELSE Unsplit(r) :
            r \in { Resolve(comps, <<>>) :
                      comps \in { Split(q, <<>>, <<>>) : q \in {p} } } } : TRUE

\* str.startswith
StartsWith(s, prefix) ==
    /\ Len(s) >= Len(prefix)
    /\ SubSeq(s, 1, Len(prefix)) = prefix

\* the security check of the file tools: abspath(...).startswith(abspath(root))
InsideCodebase(path) == StartsWith(Abspath(Join(CODEBASE_DIR, path)), CODEBASE_DIR)

\* the files of the machine: one in the project, one in a sibling directory
\* whose name extends the project's, one elsewhere
FsPaths == {Abspath(Join(CODEBASE_DIR, p)) : p \in {PathA, PathEscape, PathSibling}}

\* os.path.isdir(p): the root, the project root, or a parent of a file
IsDir(p, files) ==
    \/ p = <<"/">>
    \/ p = CODEBASE_DIR
    \/ \E q \in FsPaths : files[q] # "absent" /\ StartsWith(q, p \o <<"/">>)

\* os.path.exists(p)
Exists(p, files) ==
    \/ IsDir(p, files)
    \/ p \in FsPaths /\ files[p] # "absent"

----------------------------------------------------------------------------
\* The tools of tools.py.  A tool returns an observation and the file system
\* it leaves.  files maps each path of FsPaths to "absent" or to the file's
\* content; io is what the operating system does when the tool reaches it: "ok", "error" (the call raises an
\* Exception) or "timeout".

\* a str holding a path
PathStr(p) == [t |-> "str", s |-> "<path>", p |-> p]

Obs(kind, data) == [t |-> "obs", kind |-> kind, data |-> data]
Ret(obs, files) == [raised |-> FALSE, obs |-> obs, fs |-> files]
\* an exception leaves the call
Raised(files) == [raised |-> TRUE, obs |-> None, fs |-> files]

Target(filepath) == Abspath(Join(CODEBASE_DIR, filepath.p))

list_files(directory, files, io) ==
    IF ~IsStr(directory) THEN Ret(Obs("Error listing files", ""), files)
    ELSE IF ~InsideCodebase(directory.p)
         THEN Ret(Obs("Error: Access denied", ""), files)
    ELSE IF ~Exists(Target(directory), files)
         THEN Ret(Obs("Error: not found", ""), files)
    ELSE IF ~IsDir(Target(directory), files) \/ io = "error"
         THEN Ret(Obs("Error listing files", ""), files)
    ELSE IF \E q \in FsPaths : /\ files[q] # "absent"
                                 /\ StartsWith(q, Target(directory) \o <<"/">>)
         THEN Ret(Obs("listing", ""), files)
    ELSE Ret(Obs("The directory is empty.", ""), files)

read_file(filepath, files, io) ==
    IF ~IsStr(filepath) THEN Ret(Obs("Error reading file", ""), files)
    ELSE IF ~InsideCodebase(filepath.p)
         THEN Ret(Obs("Error: Access denied", ""), files)
    ELSE IF ~Exists(Target(filepath), files)
         THEN Ret(Obs("Error: not found", ""), files)
    ELSE IF IsDir(Target(filepath), files) \/ io = "error"
         THEN Ret(Obs("Error reading file", ""), files)
    ELSE Ret(Obs("content", files[Target(filepath)]), files)

write_file(filepath, content, files, io) ==
    IF ~IsStr(filepath) THEN Ret(Obs("Error writing file", ""), files)
    ELSE IF ~InsideCodebase(filepath.p)
         THEN Ret(Obs("Error: Access denied", ""), files)
    ELSE IF IsDir(Target(filepath), files) \/ io = "error"
         THEN Ret(Obs("Error writing file", ""), files)
    ELSE IF ~IsStr(content)
         \* open(..., 'w') has emptied the file when f.write raises
         THEN Ret(Obs("Error writing file", ""),
                  [files EXCEPT ![Target(filepath)] = ""])
    ELSE Ret(Obs("written", ""), [files EXCEPT ![Target(filepath)] = content.s])

delete_file(filepath, files, io) ==
    IF ~IsStr(filepath) THEN Ret(Obs("Error deleting file", ""), files)
    ELSE IF ~InsideCodebase(filepath.p)
         THEN Ret(Obs("Error: Access denied", ""), files)
    ELSE IF ~Exists(Target(filepath), files)
         THEN Ret(Obs("Error: not found", ""), files)
    ELSE IF IsDir(Target(filepath), files) \/ io = "error"
         THEN Ret(Obs("Error deleting file", ""), files)
    ELSE Ret(Obs("deleted", ""), [files EXCEPT ![Target(filepath)] = "absent"])

run_terminal_command(command, files, io) ==
    IF ~IsStr(command) \/ io = "error"
    THEN Ret(Obs("Error executing command", ""), files)
    ELSE IF io = "timeout" THEN Ret(Obs("Error: Command timed out", ""), files)
    ELSE Ret(Obs("STDOUT", ""), files)

search_codebase(query, files, io) ==
    IF io = "error" THEN Ret(Obs("Error searching codebase", ""), files)
    ELSE Ret(Obs("snippets", ""), files)

\* the keys of AVAILABLE_TOOLS
AVAILABLE_TOOLS == {"list_files", "read_file", "write_file", "delete_file",
                    "run_terminal_command", "search_codebase"}

\* the parameters a tool must be given, and those it may be given
Required(name) ==
    CASE name = "list_files"           -> {}
      [] name = "read_file"            -> {"filepath"}
      [] name = "write_file"           -> {"filepath", "content"}
      [] name = "delete_file"          -> {"filepath"}
      [] name = "run_terminal_command" -> {"command"}
      [] name = "search_codebase"      -> {"query"}

Optional(name) ==
    CASE name = "list_files"      -> {"directory"}
      [] name = "search_codebase" -> {"n_results"}
      [] OTHER                    -> {}

\* AVAILABLE_TOOLS[name](**args) binds: args is a mapping with the required
\* keys and no key the tool does not take (otherwise TypeError)
Binds(name, args) ==
    /\ IsDict(args)
    /\ Required(name) \subseteq DOMAIN args.f
    /\ DOMAIN args.f \subseteq Required(name) \cup Optional(name)

\* AVAILABLE_TOOLS[name](**args), where it binds
CallTool(name, args, files, io) ==
    CASE name = "list_files" ->
           list_files(Get(args, "directory", PathStr(<<".">>)), files, io)
      [] name = "read_file" -> read_file(args.f.filepath, files, io)
      [] name = "write_file" ->
           write_file(args.f.filepath, args.f.content, files, io)
      [] name = "delete_file" -> delete_file(args.f.filepath, files, io)
      [] name = "run_terminal_command" ->
           run_terminal_command(args.f.command, files, io)
      [] name = "search_codebase" -> search_codebase(args.f.query, files, io)

\* tool_name in AVAILABLE_TOOLS, for a hashable tool_name
Registered(tool_name) == IsStr(tool_name) /\ tool_name.s \in AVAILABLE_TOOLS

\* execute_tool looking the tool up without the membership test: KeyError
execute_toolNoLookupCheck(tool_name, args, files, io) ==
    IF ~Hashable(tool_name) \/ ~Registered(tool_name) THEN Raised(files)
    ELSE IF ~Binds(tool_name.s, args)
         THEN Ret(Obs("Error executing tool", tool_name.s), files)
    ELSE IF io = "interrupt" THEN Raised(files)
    ELSE CallTool(tool_name.s, args, files, io)

\* execute_tool without its try / except: the TypeError of a call that does
\* not bind leaves it
execute_toolNoCatch(tool_name, args, files, io) ==
    IF ~Hashable(tool_name) THEN Raised(files)
    ELSE IF Registered(tool_name)
    THEN IF ~Binds(tool_name.s, args) \/ io = "interrupt" THEN Raised(files)
         ELSE CallTool(tool_name.s, args, files, io)
    ELSE Ret(Obs("Error: Tool not found", ""), files)

\* execute_tool(tool_name, args): `tool_name in AVAILABLE_TOOLS` raises
\* TypeError on an unhashable name; `except Exception` catches what the call
\* raises, but not a KeyboardInterrupt
execute_tool(tool_name, args, files, io) ==
    IF ~Hashable(tool_name) THEN Raised(files)
    ELSE IF Registered(tool_name)
    THEN IF ~Binds(tool_name.s, args)
         THEN Ret(Obs("Error executing tool", tool_name.s), files)
         ELSE IF io = "interrupt" THEN Raised(files)
         ELSE CallTool(tool_name.s, args, files, io)
    ELSE Ret(Obs("Error: Tool not found", ""), files)

----------------------------------------------------------------------------
\* The turn loop.
\*
\* pc is where main_loop stands: "START" (entering main_loop),
\* "CONFIG_ERROR" (sys.exit(1) on a ValueError of a client factory),
\* "AWAIT_RESPONSE" (head of the for loop),
\* "RECOVER" (in correct_json), "APPROVE" (in console.input), "DISPATCH"
\* (about to call execute_tool), or where it has ended: "DONE" (finish),
\* "CANCELLED" (KeyboardInterrupt in the approval), "BUDGET_EXHAUSTED" (the
\* for loop's else), "FATAL" (except Exception around the generation call),
\* "NO_TOOL" (the break on a missing tool name) and "UNCAUGHT" (an exception
\* leaves main_loop).
\* turn is the loop index, calls the calls made so far in the current turn
\* (each with its turn and what it was given and did), dispatches the number
\* of execute_tool calls of the run, generations the number of
\* generate_content calls.  collection is the condition of the vector index
\* search_codebase queries (tools.py:19): "ok", or "error" when
\* collection.query raises.

Raise == [t |-> "raise"]
Interrupt == [t |-> "interrupt"]
EndOfInput == [t |-> "eof"]

Call(op, arg) == [op |-> op, turn |-> turn, arg |-> arg]

ModelRec(part) == [role |-> "model", parts |-> <<part>>]
\* the answer appended under the model's role
UserRecAsModel(part) == [role |-> "model", parts |-> <<part>>]

UserRec(part) == [role |-> "user", parts |-> <<part>>]
Notice(s) == [t |-> "notice", s |-> s]

NotValidJson == Notice("Your previous response was not valid JSON. Please correct your JSON formatting.")
CorrectionFailed == Notice("Your previous response was not valid JSON, and the correction attempt failed. Please try again with valid JSON.")
IssueProcessing == Notice("There was an issue processing your last valid JSON response. Please reconsider your plan.")
Rejected == Notice("That action was rejected. Please think of a different approach.")

\* a first record that tells of found snippets whatever the search returned
SeedHistoryWithoutSearch(initial_search_results) ==
    << [role |-> "user",
        parts |-> <<[t |-> "system_prompt"],
                    [t |-> "task_and_search", task |-> Str("task"),
                     search |-> Obs("snippets", "")]>>] >>

\* the history main_loop starts with (lines 137-142)
SeedHistory(initial_search_results) ==
    << [role |-> "user",
        parts |-> <<[t |-> "system_prompt"],
                    [t |-> "task_and_search", task |-> Str("task"),
                     search |-> initial_search_results]>>] >>

\* action.get("tool_name") and action.get("args", {}) of a response whose
\* action is a mapping
ToolName(rj) == Get(Get(rj, "action", EmptyDict), "tool_name", None)
Args(rj) == Get(Get(rj, "action", EmptyDict), "args", EmptyDict)

\* range(max_turns + 1)
InRangeOffByOne(t, n) == t <= n

\* `for turn in range(max_turns)` has another iteration
InRange(t, n) == t < n

\* a rejection that appends the notice only
RejectionRecordsNoticeOnly(rj) == <<UserRec(Rejected)>>

\* the two records a rejected action leaves (lines 224-225)
RejectionRecords(rj) == <<ModelRec(Dumps(rj)), UserRec(Rejected)>>

\* the observation appended before the response
ObservationRecordsObservationFirst(rj, observation) ==
    <<UserRec(observation), ModelRec(Dumps(rj))>>

\* the two records a dispatched action leaves (lines 237-238)
ObservationRecords(rj, observation) ==
    <<ModelRec(Dumps(rj)), UserRec(observation)>>

\* `continue` that does not advance the loop variable
ContinueSameTurn(records, log, files, n) ==
    /\ pc' = "AWAIT_RESPONSE"
    /\ history' = history \o records
    /\ turn' = turn
    /\ calls' = log
    /\ fs' = files
    /\ dispatches' = n
    /\ UNCHANGED <<max_turns, corrector_client, collection>>

\* a loop that keeps only the seed record and the records of the last turn
ContinueTrimming(records, log, files, n) ==
    /\ pc' = "AWAIT_RESPONSE"
    /\ history' = <<history[1]>> \o records
    /\ turn' = turn + 1
    /\ calls' = log
    /\ fs' = files
    /\ dispatches' = n
    /\ UNCHANGED <<max_turns, corrector_client, collection>>

\* `continue` after appending records: the next iteration (response_text and
\* response_json are set by the step that continues)
Continue(records, log, files, n) ==
    /\ pc' = "AWAIT_RESPONSE"
    /\ history' = history \o records
    /\ turn' = turn + 1
    /\ calls' = log
    /\ fs' = files
    /\ dispatches' = n
    /\ UNCHANGED <<max_turns, corrector_client, collection>>

\* leaving the loop after appending a model record
ExitRecording(state, log) ==
    /\ pc' = state
    /\ calls' = log
    /\ history' = Append(history, ModelRec(Dumps(response_json)))
    /\ UNCHANGED <<turn, fs, dispatches, max_turns, corrector_client,
                   collection>>

\* `break`, or an exception that leaves main_loop
Exit(state, log) ==
    /\ pc' = state
    /\ calls' = log
    /\ UNCHANGED <<history, turn, fs, dispatches, max_turns, corrector_client,
                   collection>>

\* display_diff(filepath, new_content) raises: os.path.join on a non-str,
\* open / read of an existing path that is a directory or cannot be read,
\* splitlines on a non-str
DiffRaises(filepath, new_content, files, io) ==
    \/ ~IsStr(filepath)
    \/ /\ Exists(Target(filepath), files)
       /\ IsDir(Target(filepath), files) \/ io = "error"
    \/ ~IsStr(new_content)

\* the file display_diff opens, if any
DiffReads(filepath, files) ==
    IF IsStr(filepath) /\ Exists(Target(filepath), files)
    THEN {Target(filepath)} ELSE {}

\* the call of display_diff at line 218, as logged
DiffCall(args, files) ==
    Call("display_diff", DiffReads(Get(args, "filepath", PathStr(<<>>)), files))

\* lines 188-218: from a decoded response to the approval prompt; rj is the
\* value of response_json, log the calls of the turn so far
Handle(rj, log, io) ==
    IF ~IsDict(rj)
    THEN Continue(<<ModelRec(Dumps(rj)), UserRec(IssueProcessing)>>, log,
                  fs, dispatches)
    ELSE IF ~IsDict(Get(rj, "action", EmptyDict)) THEN Exit("UNCAUGHT", log)
    ELSE IF ~Truthy(ToolName(rj)) THEN Exit("NO_TOOL", log)
    ELSE IF ToolName(rj) = Str("finish")
         THEN IF IsDict(Args(rj)) THEN Exit("DONE", log)
              ELSE Exit("UNCAUGHT", log)
    ELSE IF ToolName(rj) = Str("write_file") /\ ~IsDict(Args(rj))
         THEN Exit("UNCAUGHT", log)
    ELSE IF /\ ToolName(rj) = Str("write_file")
            /\ DiffRaises(Get(Args(rj), "filepath", PathStr(<<>>)),
                          Get(Args(rj), "content", Str("")), fs, io)
         THEN Exit("UNCAUGHT", Append(log, DiffCall(Args(rj), fs)))
    ELSE /\ pc' = "APPROVE"
         /\ calls' = IF ToolName(rj) = Str("write_file")
                     THEN Append(log, DiffCall(Args(rj), fs))
                     ELSE log
         /\ UNCHANGED <<history, turn, fs, dispatches, max_turns,
                        corrector_client, collection>>

\* a decode failure without the appends and the `continue`: the turn goes on
\* with the response_json of an earlier turn
OnDecodeFailureFallsThrough(text, log, io) == Handle(response_json, log, io)

\* a `continue` of a loop that does not count: the same iteration again
OnDecodeFailureSameIteration(text, log, io) ==
    /\ pc' = "AWAIT_RESPONSE"
    /\ calls' = log
    /\ UNCHANGED <<history, turn, fs, dispatches, max_turns, corrector_client,
                   collection>>

\* lines 162-166: decoding failed and there is no corrector
OnDecodeFailure(text, log, io) ==
    Continue(<<ModelRec(text), UserRec(NotValidJson)>>, log, fs, dispatches)

\* the corrected text decoded, but the turn goes on with the response_json
\* it found
OnCorrectedKeepsResponse(rj, log, io) == Handle(response_json, log, io)

\* lines 169-175, then 188: the corrected text decoded and response_json
\* holds its value; the turn goes on as after the first json.loads
OnCorrected(rj, log, io) == Handle(rj, log, io)

\* the except clause of the correction ending the loop like the outer one
OnCorrectionFailureFatal(text, log) == Exit("FATAL", log)

\* the except clause of the correction going back to the corrector
OnCorrectionFailureRetries(text, log) ==
    /\ pc' = "RECOVER"
    /\ calls' = log
    /\ UNCHANGED <<history, turn, fs, dispatches, max_turns, corrector_client, collection>>

\* lines 176-181: the corrector raised, or its output did not decode
OnCorrectionFailure(text, log) ==
    Continue(<<ModelRec(text), UserRec(CorrectionFailed)>>, log, fs,
             dispatches)

\* the outer except clause with `continue` in the place of `break`
OnExceptionContinues(log) == Continue(<<>>, log, fs, dispatches)

\* lines 183-186: any other exception of the generation step
OnException(log) == Exit("FATAL", log)

\* the interrupt taken for an answer other than yes
OnKeyboardInterruptRejects(log) ==
    Continue(RejectionRecords(response_json), log, fs, dispatches)

\* lines 227-229: KeyboardInterrupt at the approval prompt
OnKeyboardInterrupt(log) == Exit("CANCELLED", log)

\* llm_api.py: each client's constructor raises ValueError without its key,
\* each factory raises ValueError for a provider it does not know
Providers == {"google", "openai", "openrouter"}
Client(provider, keys) ==
    IF provider \in keys THEN [t |-> "client", provider |-> provider]
    ELSE Raise
get_llm_api(provider, keys) ==
    IF provider \in Providers THEN Client(provider, keys) ELSE Raise
\* get_corrector_api handing out a client whether or not its key is set
get_corrector_apiWithoutKey(provider, keys) ==
    IF provider \in Providers THEN [t |-> "client", provider |-> provider]
    ELSE Raise

get_corrector_api(provider, keys) ==
    IF provider \in Providers THEN Client(provider, keys) ELSE Raise

\* the settings main_loop starts from: config.API_PROVIDER, the
\* corrector_api_provider argument and the providers whose key is set
Configs ==
    [api : Providers \cup {"bogus"},
     corrector_api : Providers \cup {"bogus", "none"},
     keys : SUBSET Providers]

\* the status the process exits with when main_loop stops in a state:
\* sys.exit(1) at line 128, an uncaught exception, or a return to the end of
\* the script
ExitStatus(state) ==
    IF state \in {"CONFIG_ERROR", "UNCAUGHT"} THEN 1 ELSE 0

----------------------------------------------------------------------------
\* What the model, the corrector, the user and the operating system may do.

Thought == Str("thought")

\* {"thought": ..., "action": {"tool_name": name, "args": args}}
Response(name, args) ==
    Obj([thought |-> Thought,
         action |-> Obj([tool_name |-> name, args |-> args])])

ReadA == Response(Str("read_file"), Obj([filepath |-> PathStr(PathA)]))
WriteA == Response(Str("write_file"),
                   Obj([filepath |-> PathStr(PathA), content |-> Str("new")]))
Finish == Response(Str("finish"), Obj([final_summary |-> Str("done")]))
Frobnicate == Response(Str("frobnicate"), EmptyDict)

\* responses that name a tool and reach the approval prompt
ToolResponses ==
    { ReadA,
      WriteA,
      Frobnicate,
      Response(Str("read_file"), Obj([filepath |-> PathStr(PathEscape)])),
      Response(Str("write_file"),
               Obj([filepath |-> PathStr(PathSibling), content |-> Str("new")])),
      Response(Str("delete_file"), Obj([filepath |-> PathStr(PathA)])),
      Response(Str("run_terminal_command"), Obj([command |-> Str("pytest")])),
      Response(Str("list_files"), EmptyDict),
      Response(Str("search_codebase"), Obj([query |-> Str("q")])),
      Response(Str("read_file"), Obj([path |-> PathStr(PathA)])),
      Response(Str("read_file"), Str("a")),
      Response(List, EmptyDict) }

\* decoded values that are not a well-formed response, and finish
OtherResponses ==
    { List,
      Obj([thought |-> Thought]),
      Obj([thought |-> Thought, action |-> Str("read_file")]),
      Obj([thought |-> Thought, action |-> Obj([args |-> EmptyDict])]),
      Finish,
      Response(Str("finish"), Str("done")),
      Response(Str("write_file"), None),
      Response(Str("write_file"), Obj([content |-> Str("new")])),
      Response(Str("write_file"),
               Obj([filepath |-> PathStr(PathA), content |-> Num(1)])) }

\* what llm_client.generate_content(history) does
ModelOutputs ==
    {Raise, Interrupt, None, Bare(Garbage), Fenced(ReadA),
     Text(TRUE, FALSE, Finish), Text(FALSE, TRUE, Finish)}
    \cup {Bare(r) : r \in ToolResponses \cup OtherResponses}

\* what corrector_client.correct_json(response_text) does
CorrectorOutputs ==
    {Raise, Interrupt, None, Bare(Garbage), Bare(List), Fenced(WriteA),
     Bare(Finish), Bare(Frobnicate)}

\* what console.input(...) does
Inputs == {Str("y"), Str("Y"), Str("n"), Str(""), Interrupt, EndOfInput}

\* str.lower() on the inputs
Lower(approval) == IF approval = Str("Y") THEN Str("y") ELSE approval

\* approval != 'n'
AffirmativeUnlessNo(approval) == Lower(approval) # Str("n")

\* approval == 'y' after .lower()
Affirmative(approval) == Lower(approval) = Str("y")

\* what the operating system may do under a tool: nothing under a name that
\* is not registered
IoOutcomes(tool_name) ==
    IF ~Hashable(tool_name) \/ ~Registered(tool_name) THEN {"ok"}
    ELSE IF tool_name = Str("run_terminal_command")
    THEN {"ok", "error", "timeout", "interrupt"}
    ELSE IF tool_name = Str("search_codebase") /\ collection = "error"
    THEN {"error", "interrupt"}
    ELSE {"ok", "error", "interrupt"}

InitialFs ==
    { [q \in FsPaths |-> IF q = Target(PathStr(PathA)) THEN a ELSE "old"] :
        a \in {"absent", "old"} }

\* the text a call returned, fence stripped (lines 153-154, 173-174)
Stripped(out) == IF out.t = "text" THEN StripFence(out) ELSE out

\* a call returned a text that json.loads decodes
Decoded(out) == out.t = "text" /\ Decodes(StripFence(out))

\* the json.loads call, as logged
LoadsCall(out) ==
    Call("json.loads", [text |-> Stripped(out), ok |-> Decoded(out)])

----------------------------------------------------------------------------
\* main_loop is entered: nothing is assigned yet
Entered ==
    /\ pc = "START"
    /\ max_turns \in 0..MaxTurns
    /\ corrector_client = FALSE
    /\ turn = 0
    /\ history = <<>>
    /\ response_text = None
    /\ response_json = None
    /\ fs \in InitialFs
    /\ calls = <<>>
    /\ dispatches = 0
    /\ generations = 0

\* a run over an index that answers queries
Init == Entered /\ collection = "ok"

\* a run with a budget below the largest one
InitBelowBound == Init /\ max_turns < MaxTurns

\* a run over an index that may raise on every query
InitAnyCollection == Entered /\ collection \in {"ok", "error"}

\* lines 121-142: the two clients, the initial search and the first record
\* of the history; a ValueError from either factory ends the process
Startup ==
    /\ pc = "START"
    /\ \E cfg \in Configs :
         LET llm == <<Call("get_llm_api", cfg)>>
             cor == IF cfg.corrector_api = "none" THEN llm
                    ELSE Append(llm, Call("get_corrector_api", cfg))
             initial_search_results ==
                 search_codebase(Str("task"), fs, collection).obs
         IN
         IF get_llm_api(cfg.api, cfg.keys) = Raise
         THEN /\ Exit("CONFIG_ERROR", llm)
              /\ UNCHANGED <<response_text, response_json, generations>>
         ELSE IF /\ cfg.corrector_api # "none"
                 /\ get_corrector_api(cfg.corrector_api, cfg.keys) = Raise
         THEN /\ Exit("CONFIG_ERROR", cor)
              /\ UNCHANGED <<response_text, response_json, generations>>
         ELSE /\ pc' = "AWAIT_RESPONSE"
              /\ corrector_client' = (cfg.corrector_api # "none")
              /\ history' = SeedHistory(initial_search_results)
              /\ calls' = Append(cor, Call("search_codebase",
                                           initial_search_results))
              /\ UNCHANGED <<max_turns, turn, fs, dispatches, response_text,
                             response_json, generations, collection>>

\* lines 144-166 and 183-186: one more iteration; the generation call, the
\* fence stripping and json.loads
Generate ==
    /\ pc = "AWAIT_RESPONSE"
    /\ InRange(turn, max_turns)
    /\ \E out \in ModelOutputs, io \in {"ok", "error"} :
         LET gen == <<Call("generate_content", [history |-> history,
                                                returned |-> out])>>
             log == Append(gen, LoadsCall(out))
         IN
         /\ generations' = generations + 1
         /\ response_text' = IF out \in {Raise, Interrupt} THEN response_text
                             ELSE Stripped(out)
         /\ response_json' = IF Decoded(out) THEN Loads(StripFence(out))
                             ELSE response_json
         /\ IF out = Raise \/ out = None THEN OnException(gen)
            ELSE IF out = Interrupt THEN Exit("UNCAUGHT", gen)
            ELSE IF Decoded(out) THEN Handle(Loads(StripFence(out)), log, io)
            ELSE IF ~corrector_client
                 THEN OnDecodeFailure(StripFence(out), log, io)
            ELSE /\ pc' = "RECOVER"
                 /\ calls' = log
                 /\ UNCHANGED <<history, turn, fs, dispatches, max_turns,
                                corrector_client, collection>>

\* lines 168-181: the corrector call and the second json.loads
Correct ==
    /\ pc = "RECOVER"
    /\ \E out \in CorrectorOutputs, io \in {"ok", "error"} :
         LET cor == Append(calls, Call("correct_json",
                        [text |-> response_text, returned |-> out]))
             log == Append(cor, LoadsCall(out))
         IN
         /\ response_text' = IF out \in {Raise, Interrupt} THEN response_text
                             ELSE Stripped(out)
         /\ response_json' = IF Decoded(out) THEN Loads(StripFence(out))
                             ELSE response_json
         /\ UNCHANGED generations
         /\ IF out = Interrupt THEN Exit("UNCAUGHT", cor)
            ELSE IF out = Raise THEN OnCorrectionFailure(response_text, cor)
            ELSE IF out = None THEN OnCorrectionFailure(None, cor)
            ELSE IF Decoded(out)
                 THEN OnCorrected(Loads(StripFence(out)), log, io)
            ELSE OnCorrectionFailure(StripFence(out), log)

\* lines 220-229: the approval prompt
Approve ==
    /\ pc = "APPROVE"
    /\ \E approval \in Inputs :
         LET log == Append(calls, Call("input",
                        [action |-> response_json, approval |-> approval])) IN
         /\ UNCHANGED <<response_text, response_json, generations>>
         /\ IF approval = Interrupt THEN OnKeyboardInterrupt(log)
            ELSE IF approval = EndOfInput THEN Exit("UNCAUGHT", log)
            ELSE IF ~Affirmative(approval)
                 THEN Continue(RejectionRecords(response_json), log, fs,
                               dispatches)
            ELSE /\ pc' = "DISPATCH"
                 /\ calls' = log
                 /\ UNCHANGED <<history, turn, fs, dispatches, max_turns,
                                corrector_client, collection>>

\* lines 231-238: execute_tool and the two appends
Dispatch ==
    /\ pc = "DISPATCH"
    /\ \E io \in IoOutcomes(ToolName(response_json)) :
         LET log == Append(calls, Call("execute_tool",
                        [tool_name |-> ToolName(response_json),
                         args |-> Args(response_json), io |-> io]))
             r == execute_tool(ToolName(response_json), Args(response_json),
                               fs, io)
         IN
         /\ UNCHANGED <<response_text, response_json, generations>>
         /\ IF r.raised
            THEN /\ pc' = "UNCAUGHT"
                 /\ calls' = log
                 /\ dispatches' = dispatches + 1
                 /\ UNCHANGED <<history, turn, fs, max_turns, corrector_client, collection>>
            ELSE Continue(ObservationRecords(response_json, r.obs), log, r.fs,
                          dispatches + 1)

\* lines 240-241: the for loop's else
BudgetExhausted ==
    /\ pc = "AWAIT_RESPONSE"
    /\ ~InRange(turn, max_turns)
    /\ Exit("BUDGET_EXHAUSTED", calls)
    /\ UNCHANGED <<response_text, response_json, generations>>

Next == Startup \/ Generate \/ Correct \/ Approve \/ Dispatch \/ BudgetExhausted

Spec == Init /\ [][Next]_vars

\* the same program started over either index
SeedSpec == InitAnyCollection /\ [][Next]_vars

\* every blocking call (generate_content, correct_json, console.input,
\* execute_tool) returns, raises or is interrupted: a step that can be taken
\* is taken
FairSpec == InitBelowBound /\ [][Next]_vars /\ WF_vars(Next)

----------------------------------------------------------------------------
\* Properties.

LastCall == calls[Len(calls)]
Called(op) == \E i \in 1..Len(calls) : calls[i].op = op
YesAnswers == {Str("y"), Str("Y")}
LastTwo(h) == SubSeq(h, Len(h) - 1, Len(h))
AtLoopHead == pc \in {"AWAIT_RESPONSE", "BUDGET_EXHAUSTED"}

\* C1: a capability is dispatched in a turn only after the approval prompt
\* was shown in that turn for that same action and answered with yes; this
\* holds for every tool name, registered or not.
C1_DispatchOnlyAfterApproval ==
    /\ \A i \in 1..Len(calls) :
         calls[i].op = "execute_tool" =>
           /\ i > 1
           /\ calls[i-1].op = "input"
           /\ calls[i-1].turn = calls[i].turn
           /\ calls[i-1].arg.approval \in YesAnswers
           /\ ToolName(calls[i-1].arg.action) = calls[i].arg.tool_name
           /\ Args(calls[i-1].arg.action) = calls[i].arg.args
    /\ pc = "DISPATCH" =>
           /\ LastCall.op = "input"
           /\ LastCall.arg.approval \in YesAnswers
           /\ LastCall.arg.action = response_json

C1_Witness ==
    /\ pc = "AWAIT_RESPONSE"
    /\ Called("execute_tool")
    /\ LastCall.arg.tool_name = Str("write_file")
    /\ fs[Target(PathStr(PathA))] = "new"

\* C2: an approval input other than yes dispatches nothing, leaves the files
\* alone, appends a model record holding the proposed action and then a user
\* record holding the rejection notice, and goes to the next iteration.
C2_RejectionRecordsAndContinues ==
    [][ ( /\ pc = "APPROVE"
          /\ calls' # calls
          /\ calls'[Len(calls')].arg.approval \in {Str("n"), Str("")} )
        => /\ Len(history') = Len(history) + 2
           /\ SubSeq(history', 1, Len(history)) = history
           /\ history'[Len(history) + 1].role = "model"
           /\ Decodes(history'[Len(history) + 1].parts[1])
           /\ Loads(history'[Len(history) + 1].parts[1]) = response_json
           /\ history'[Len(history) + 2] = UserRec(Rejected)
           /\ fs' = fs
           /\ dispatches' = dispatches
           /\ \A i \in 1..Len(calls') : calls'[i].op # "execute_tool"
           /\ pc' = "AWAIT_RESPONSE"
           /\ turn' = turn + 1 ]_vars

C2_Witness ==
    /\ pc = "AWAIT_RESPONSE"
    /\ calls # <<>>
    /\ LastCall.op = "input"
    /\ LastCall.arg.approval = Str("")
    /\ LastCall.arg.action = WriteA
    /\ history[Len(history)] = UserRec(Rejected)
    /\ fs[Target(PathStr(PathA))] = "old"

\* C3: at most max_turns dispatches and at most max_turns turns; once
\* max_turns responses have been dispatched the loop takes no further
\* response and ends in BUDGET_EXHAUSTED, which is reached only with the
\* budget used up.
C3_TurnBudget ==
    /\ dispatches <= max_turns
    /\ turn <= max_turns
    /\ pc = "BUDGET_EXHAUSTED" => turn = max_turns
    /\ (pc = "AWAIT_RESPONSE" /\ dispatches = max_turns)
         => (~ENABLED Generate /\ ENABLED BudgetExhausted)

C3_Witness ==
    /\ pc = "BUDGET_EXHAUSTED"
    /\ max_turns = MaxTurns
    /\ dispatches = max_turns

\* C4: every step leaves the history it found as a prefix of the history it
\* leaves.
C4_HistoryAppendOnly ==
    [][ /\ Len(history') >= Len(history)
        /\ SubSeq(history', 1, Len(history)) = history ]_vars

C4_Witness ==
    /\ Len(history) = 5
    /\ history[3] = UserRec(Rejected)
    /\ history[5].parts[1].t = "obs"

\* C5 (as claimed): a parsed response naming finish ends the loop in DONE in
\* that turn, with no approval prompt and no dispatch, whatever its args.
C5_FinishGoesToDone ==
    ( /\ calls # <<>>
      /\ LastCall.op = "json.loads"
      /\ LastCall.arg.ok
      /\ IsDict(response_json)
      /\ IsDict(Get(response_json, "action", EmptyDict))
      /\ ToolName(response_json) = Str("finish") )
    => /\ pc = "DONE"
       /\ ~Called("input")
       /\ ~Called("execute_tool")

\* the raw output of the turn failed to decode / a later decoding succeeded
RawDecodeFailed ==
    /\ Len(calls) >= 2
    /\ calls[2].op = "json.loads"
    /\ ~calls[2].arg.ok
Repaired ==
    \E i \in 3..Len(calls) : calls[i].op = "json.loads" /\ calls[i].arg.ok

\* C6 (as claimed): a turn whose raw output fails to decode never calls
\* execute_tool, with or without a corrector.
C6_DecodeFailureNeverDispatches ==
    RawDecodeFailed => ~Called("execute_tool")

\* C6 (amended): a turn whose raw output fails to decode and is not repaired
\* by the corrector shows no approval prompt and never calls execute_tool.
C6_UnrepairedNeverDispatches ==
    (RawDecodeFailed /\ ~Repaired)
    => /\ ~Called("execute_tool")
       /\ ~Called("input")
       /\ pc \in {"AWAIT_RESPONSE", "RECOVER", "BUDGET_EXHAUSTED", "UNCAUGHT"}

C6_Witness ==
    /\ pc = "AWAIT_RESPONSE"
    /\ RawDecodeFailed
    /\ ~Repaired
    /\ turn = 2
    /\ history[Len(history)] = UserRec(NotValidJson)

\* the four conditions of a well-formed response that C7 lists
WellFormed(rj) ==
    /\ IsDict(rj)
    /\ IsDict(Get(rj, "action", EmptyDict))
    /\ Truthy(ToolName(rj))

\* C7 (as claimed): output that does not decode, or decodes to something
\* that is not a well-formed response, never ends the loop: the loop goes on
\* to the next turn (or to the corrector), and only the budget ends the run.
C7_MalformedOutputAbsorbed ==
    ( /\ calls # <<>>
      /\ LastCall.op = "json.loads"
      /\ ~LastCall.arg.ok \/ ~WellFormed(response_json) )
    => pc \in {"AWAIT_RESPONSE", "RECOVER", "BUDGET_EXHAUSTED"}

\* C8 (as claimed): main_loop stops only in DONE, CANCELLED,
\* BUDGET_EXHAUSTED or FATAL.
C8_OnlyNamedExits ==
    pc \in {"START", "CONFIG_ERROR",
            "AWAIT_RESPONSE", "RECOVER", "APPROVE", "DISPATCH",
            "DONE", "CANCELLED", "BUDGET_EXHAUSTED", "FATAL"}

\* C9: dispatching a name that is not registered raises nothing: the turn
\* appends the response and the "not found" observation as a user record and
\* the loop is at its head for the next turn.
C9_UnknownToolObserved ==
    ( /\ calls # <<>>
      /\ LastCall.op = "execute_tool"
      /\ IsStr(LastCall.arg.tool_name)
      /\ LastCall.arg.tool_name.s \notin AVAILABLE_TOOLS )
    => /\ AtLoopHead
       /\ turn = LastCall.turn + 1
       /\ LastTwo(history) =
            <<ModelRec(Bare(response_json)),
              UserRec(Obs("Error: Tool not found", ""))>>

C9_Witness ==
    /\ pc = "AWAIT_RESPONSE"
    /\ calls # <<>>
    /\ LastCall.op = "execute_tool"
    /\ LastCall.arg.tool_name = Str("frobnicate")
    /\ turn < max_turns

ErrorObservations ==
    {"Error executing tool", "Error: Access denied", "Error: not found",
     "Error listing files", "Error reading file", "Error writing file",
     "Error deleting file", "Error executing command",
     "Error: Command timed out", "Error searching codebase"}

\* the arguments do not fit the tool: not a mapping, a key missing or a key
\* the tool does not take
BadArguments(name, args) ==
    \/ ~IsDict(args)
    \/ \E k \in Required(name) : k \notin DOMAIN args.f
    \/ \E k \in DOMAIN args.f : k \notin Required(name) \cup Optional(name)

\* C10: when a dispatched registered tool fails (the operating system
\* raises, the command times out, the arguments do not fit), nothing is
\* raised to main_loop: the turn appends the response and an error
\* observation and the loop is at its head for the next turn.
C10_ToolFailureObserved ==
    ( /\ calls # <<>>
      /\ LastCall.op = "execute_tool"
      /\ IsStr(LastCall.arg.tool_name)
      /\ LastCall.arg.tool_name.s \in AVAILABLE_TOOLS
      /\ \/ LastCall.arg.io \in {"error", "timeout"}
         \/ BadArguments(LastCall.arg.tool_name.s, LastCall.arg.args) )
    => /\ AtLoopHead
       /\ turn = LastCall.turn + 1
       /\ LastTwo(history)[1] = ModelRec(Bare(response_json))
       /\ LastTwo(history)[2].role = "user"
       /\ LastTwo(history)[2].parts[1].t = "obs"
       /\ LastTwo(history)[2].parts[1].kind \in ErrorObservations

C10_Witness ==
    /\ pc = "AWAIT_RESPONSE"
    /\ calls # <<>>
    /\ LastCall.op = "execute_tool"
    /\ LastCall.arg.io = "timeout"
    /\ history[Len(history)] = UserRec(Obs("Error: Command timed out", ""))
    /\ turn < max_turns

C12_CorrectorFailureIsFatal ==
    ( /\ calls # <<>>
      /\ LastCall.op = "correct_json"
      /\ LastCall.arg.returned = Raise )
    => pc = "FATAL"

\* C12 (amended): when correct_json raises an Exception, the loop does not
\* end: the turn appends the malformed text as a model record and the
\* "correction attempt failed" instruction as a user record, shows no
\* approval prompt, dispatches nothing, and the loop is at its head for the
\* next turn.
C12_CorrectorFailureRetried ==
    ( /\ calls # <<>>
      /\ LastCall.op = "correct_json"
      /\ LastCall.arg.returned = Raise )
    => /\ AtLoopHead
       /\ turn = LastCall.turn + 1
       /\ pc = "BUDGET_EXHAUSTED" => turn = max_turns
       /\ LastTwo(history) =
            <<ModelRec(LastCall.arg.text), UserRec(CorrectionFailed)>>
       /\ LastCall.arg.text = calls[2].arg.text
       /\ ~Called("input")
       /\ ~Called("execute_tool")

C12_Witness ==
    /\ pc = "AWAIT_RESPONSE"
    /\ calls # <<>>
    /\ LastCall.op = "correct_json"
    /\ LastCall.arg.returned = Raise
    /\ turn < max_turns
    /\ history[Len(history)] = UserRec(CorrectionFailed)

\* C13 (as claimed): the process exits with status 0 when main_loop stops in
\* DONE or BUDGET_EXHAUSTED and with a non-zero status when it stops in
\* FATAL.
C13_ExitStatusTellsFatal ==
    /\ pc \in {"DONE", "BUDGET_EXHAUSTED"} => ExitStatus(pc) = 0
    /\ pc = "FATAL" => ExitStatus(pc) # 0

\* C14: a KeyboardInterrupt at the approval prompt ends the loop in
\* CANCELLED in that turn: nothing is dispatched, nothing is appended to the
\* history, no step follows, and the process exits as after a normal end.
C14_InterruptCancels ==
    ( /\ calls # <<>>
      /\ LastCall.op = "input"
      /\ LastCall.arg.approval = Interrupt )
    => /\ pc = "CANCELLED"
       /\ ~Called("execute_tool")
       /\ calls[1].op = "generate_content"
       /\ history = calls[1].arg.history
       /\ generations = LastCall.turn + 1
       /\ turn = LastCall.turn
       /\ ExitStatus(pc) = 0
       /\ ~ENABLED Next

C14_Witness ==
    /\ pc = "CANCELLED"
    /\ LastCall.arg.approval = Interrupt
    /\ LastCall.arg.action = WriteA
    /\ fs[Target(PathStr(PathA))] = "old"
    /\ turn = 1

\* the path argument a file tool is called with
PathArgument(name, args) ==
    IF name = "list_files" THEN Get(args, "directory", PathStr(<<".">>))
    ELSE args.f.filepath

\* the resolved path is neither the project root nor below it
OutsideRoot(p) ==
    LET a == Abspath(Join(CODEBASE_DIR, p)) IN
    ~(a = CODEBASE_DIR \/ StartsWith(a, CODEBASE_DIR \o <<"/">>))

\* C15 (as claimed): a dispatched list_files, read_file, write_file or
\* delete_file whose path resolves outside the project root (parent
\* traversal or a sibling directory whose name extends the root's) raises
\* nothing, leaves the files as they were and is observed as "Access
\* denied".
C15_EscapingPathDenied ==
    [][ ( /\ pc = "DISPATCH"
          /\ calls' # calls
          /\ LET c == calls'[Len(calls')].arg IN
               /\ IsStr(c.tool_name)
               /\ c.tool_name.s \in {"list_files", "read_file", "write_file",
                                     "delete_file"}
               /\ Binds(c.tool_name.s, c.args)
               /\ IsStr(PathArgument(c.tool_name.s, c.args))
               /\ OutsideRoot(PathArgument(c.tool_name.s, c.args).p)
               /\ c.io # "interrupt" )
        => /\ pc' = "AWAIT_RESPONSE"
           /\ fs' = fs
           /\ history'[Len(history')] =
                UserRec(Obs("Error: Access denied", "")) ]_vars

\* the configuration fails: the provider of the reasoning client, or of the
\* corrector when one is asked for, is unknown or has no key
ConfigurationFails(cfg) ==
    \/ cfg.api \notin Providers
    \/ cfg.api \notin cfg.keys
    \/ /\ cfg.corrector_api # "none"
       /\ \/ cfg.corrector_api \notin Providers
          \/ cfg.corrector_api \notin cfg.keys

\* C16: a run whose configuration fails ends in CONFIG_ERROR before the
\* loop, with a non-zero exit status and with no retrieval call, no
\* generation call, no approval prompt and no dispatch; a run whose
\* configuration does not fail never ends that way.
C16_ConfigFailureEndsBeforeLoop ==
    /\ ( /\ calls # <<>>
         /\ calls[1].op = "get_llm_api"
         /\ ConfigurationFails(calls[1].arg) )
       => /\ pc = "CONFIG_ERROR"
          /\ ExitStatus(pc) # 0
          /\ ~Called("search_codebase")
          /\ ~Called("generate_content")
          /\ ~Called("input")
          /\ ~Called("execute_tool")
          /\ history = <<>>
          /\ generations = 0
          /\ dispatches = 0
          /\ ~ENABLED Next
    /\ pc = "CONFIG_ERROR"
       => /\ calls[1].op = "get_llm_api"
          /\ ConfigurationFails(calls[1].arg)

C16_Witness ==
    /\ pc = "CONFIG_ERROR"
    /\ Len(calls) = 2
    /\ calls[2].op = "get_corrector_api"
    /\ calls[2].arg.api = "google"
    /\ calls[2].arg.corrector_api = "openai"
    /\ calls[2].arg.keys = {"google"}
    /\ max_turns = MaxTurns

\* C17: the generation call is made at most max_turns times; at the head of
\* the loop every generation call made so far has used up one turn, whether
\* its iteration dispatched, was rejected or recovered from a decode
\* failure (each of them added two records to the history); inside an
\* iteration one more call has been made than turns are used up; with
\* max_turns = 0 the only step of the loop is the one to BUDGET_EXHAUSTED
\* and no generation call is made.
C17_EveryIterationCostsOneTurn ==
    /\ generations <= max_turns
    /\ pc \in {"AWAIT_RESPONSE", "BUDGET_EXHAUSTED"}
         => /\ generations = turn
            /\ Len(history) = 1 + 2 * turn
    /\ pc \in {"RECOVER", "APPROVE", "DISPATCH"} => generations = turn + 1
    /\ (max_turns = 0 /\ pc = "AWAIT_RESPONSE")
         => /\ ~ENABLED Generate
            /\ ENABLED BudgetExhausted
    /\ (max_turns = 0 /\ pc \notin {"START", "CONFIG_ERROR"})
         => /\ pc \in {"AWAIT_RESPONSE", "BUDGET_EXHAUSTED"}
            /\ generations = 0

\* a run of MaxTurns iterations: a decode failure, then a rejection or a
\* dispatch, and the budget is used up
C17_Witness ==
    /\ pc = "BUDGET_EXHAUSTED"
    /\ max_turns = MaxTurns
    /\ generations = MaxTurns
    /\ history[3] \in {UserRec(NotValidJson), UserRec(CorrectionFailed)}
    /\ LastCall.op \in {"input", "execute_tool"}

C17_WitnessZero ==
    /\ pc = "BUDGET_EXHAUSTED"
    /\ max_turns = 0
    /\ generations = 0

\* the state a turn is left in when its output failed to decode and there is
\* no corrector
UncorrectedDecodeFailure ==
    /\ RawDecodeFailed
    /\ ~corrector_client
    /\ calls[1].op = "generate_content"

\* C18 (as claimed): when decoding fails and there is no corrector, the turn
\* appends two records, the model's raw output and the "not valid JSON"
\* instruction, calls no corrector, shows no prompt, dispatches nothing and
\* the loop is at its head for the next turn.
C18_RawOutputRecorded ==
    UncorrectedDecodeFailure
    => /\ AtLoopHead
       /\ turn = calls[1].turn + 1
       /\ history = calls[1].arg.history
                       \o <<ModelRec(calls[1].arg.returned),
                            UserRec(NotValidJson)>>
       /\ ~Called("correct_json")
       /\ ~Called("input")
       /\ ~Called("execute_tool")

\* the positions of the turn's log at which op was called
CallsOf(op) == {i \in 1..Len(calls) : calls[i].op = op}

\* C19: in a turn whose output failed to decode with a corrector
\* configured, correct_json is called once, with the text that failed to
\* decode, and json.loads runs once more, on what the corrector returned;
\* when that fails too, the turn appends the failed text as a model record
\* and the "correction attempt failed" instruction as a user record, makes
\* no other call and the loop is at its head for the next turn.
C19_OneCorrectionAttempt ==
    /\ pc = "RECOVER" => (RawDecodeFailed /\ corrector_client /\ Len(calls) = 2)
    /\ (RawDecodeFailed /\ corrector_client /\ pc # "RECOVER")
         => /\ CallsOf("correct_json") = {3}
            /\ calls[3].arg.text = calls[2].arg.text
            /\ calls[3].turn = calls[2].turn
            /\ CallsOf("json.loads") \subseteq {2, 4}
            /\ (calls[3].arg.returned.t = "text")
                 => /\ CallsOf("json.loads") = {2, 4}
                    /\ calls[4].arg.text = Stripped(calls[3].arg.returned)
            /\ (4 \in CallsOf("json.loads") /\ ~calls[4].arg.ok)
                 => /\ Len(calls) = 4
                    /\ AtLoopHead
                    /\ turn = calls[4].turn + 1
                    /\ history = calls[1].arg.history
                                    \o <<ModelRec(calls[4].arg.text),
                                         UserRec(CorrectionFailed)>>
    /\ ~corrector_client => ~Called("correct_json")

C19_Witness ==
    /\ pc = "AWAIT_RESPONSE"
    /\ RawDecodeFailed
    /\ Len(calls) = 4
    /\ calls[3].op = "correct_json"
    /\ calls[3].arg.returned = Bare(Garbage)
    /\ ~calls[4].arg.ok
    /\ turn < max_turns

\* the calls of the turn after position k of its log
After(k) == SubSeq(calls, k + 1, Len(calls))

\* the turn goes on from the response decoded at position k of its log: the
\* finish check, the diff preview of write_file, the approval prompt about
\* that response, the dispatch of its tool and arguments, and the two
\* records (the response, then the rejection notice or the observation)
ContinuesWith(k) ==
    LET rj == Loads(calls[k].arg.text)
        rest == After(k)
        h0 == calls[1].arg.history
    IN
    /\ response_json = rj
    /\ ToolName(rj) = Str("finish")
         => /\ rest = <<>>
            /\ history = h0
            /\ IsDict(Args(rj)) => pc = "DONE"
    /\ ToolName(rj) # Str("finish")
         => /\ \A i \in 1..Len(rest) :
                 /\ rest[i].op \in {"display_diff", "input", "execute_tool"}
                 /\ rest[i].op = "display_diff"
                      => (i = 1 /\ ToolName(rj) = Str("write_file"))
                 /\ rest[i].op = "input"
                      => /\ rest[i].arg.action = rj
                         /\ i = IF ToolName(rj) = Str("write_file")
                                THEN 2 ELSE 1
                 /\ rest[i].op = "execute_tool"
                      => /\ rest[i].arg.tool_name = ToolName(rj)
                         /\ rest[i].arg.args = Args(rj)
                         /\ i = Len(rest)
                         /\ rest[i-1].op = "input"
                         /\ rest[i-1].arg.approval \in YesAnswers
            /\ pc = "APPROVE" => (~Called("input") /\ history = h0)
            /\ pc = "DISPATCH" => (LastCall.op = "input" /\ history = h0)
            /\ AtLoopHead
                 => /\ LastCall.op \in {"input", "execute_tool"}
                    /\ Len(history) = Len(h0) + 2
                    /\ SubSeq(history, 1, Len(h0)) = h0
                    /\ LastTwo(history)[1] = ModelRec(Bare(rj))
                    /\ LastCall.op = "input"
                         => LastTwo(history)[2] = UserRec(Rejected)
                    /\ LastCall.op = "execute_tool"
                         => /\ LastTwo(history)[2].role = "user"
                            /\ LastTwo(history)[2].parts[1].t = "obs"

\* the response at position k of the log decoded to a well-formed response
DecodedAt(k) ==
    /\ Len(calls) >= k
    /\ calls[1].op = "generate_content"
    /\ calls[k].op = "json.loads"
    /\ calls[k].arg.ok
    /\ WellFormed(Loads(calls[k].arg.text))

\* C20: a turn whose output failed to decode and whose corrected text
\* decodes to a well-formed response goes on with the corrected response as
\* a turn goes on with a response the model produced itself: one and the
\* same description of the finish check, the approval prompt, the dispatch
\* and the two appended records holds after either json.loads.
C20_CorrectedResponseHandledAlike ==
    /\ DecodedAt(2) => ContinuesWith(2)
    /\ (DecodedAt(4) /\ RawDecodeFailed /\ calls[3].op = "correct_json")
         => /\ Loads(calls[4].arg.text) = Loads(calls[3].arg.returned)
            /\ ContinuesWith(4)

C20_Witness ==
    /\ pc = "AWAIT_RESPONSE"
    /\ DecodedAt(4)
    /\ RawDecodeFailed
    /\ calls[3].arg.returned = Fenced(WriteA)
    /\ LastCall.op = "execute_tool"
    /\ fs[Target(PathStr(PathA))] = "new"
    /\ turn < max_turns

\* the calls of a turn's log are made one after the other in the order of
\* the loop body, all in the same turn, the generation call first and once
OneStepAtATime ==
    \A i \in 1..Len(calls) :
       /\ calls[i].turn = calls[1].turn
       /\ calls[i].op = "generate_content" => i = 1
       /\ calls[i].op = "input"
            => (i > 1 /\ calls[1].op = "generate_content"
                      /\ calls[i-1].op \in {"json.loads", "display_diff"})
       /\ calls[i].op = "execute_tool"
            => (i = Len(calls) /\ calls[i-1].op = "input")

\* C21: the step that dispatches an approved action appends two records,
\* the response as a model record and then the observation of that call as
\* a user record; the generation call that follows is given that history,
\* ending with the observation; the calls of a turn are made one after the
\* other, none in a step of another turn.
C21_ObservationSeenByNextCall ==
    [][ /\ (pc = "DISPATCH" /\ pc' = "AWAIT_RESPONSE")
           => /\ Len(history') = Len(history) + 2
              /\ SubSeq(history', 1, Len(history)) = history
              /\ history'[Len(history) + 1] = ModelRec(Bare(response_json))
              /\ LET c == calls'[Len(calls')] IN
                 /\ c.op = "execute_tool"
                 /\ history'[Len(history) + 2] =
                      UserRec(execute_tool(c.arg.tool_name, c.arg.args, fs,
                                           c.arg.io).obs)
              /\ turn' = turn + 1
        /\ ( /\ pc = "AWAIT_RESPONSE"
             /\ generations' = generations + 1
             /\ calls # <<>>
             /\ LastCall.op = "execute_tool" )
           => /\ calls'[1].op = "generate_content"
              /\ calls'[1].turn = LastCall.turn + 1
              /\ calls'[1].arg.history = history
              /\ history[Len(history)].role = "user"
              /\ history[Len(history)].parts[1].t = "obs"
              /\ history[Len(history) - 1] = ModelRec(Bare(response_json))
        /\ OneStepAtATime' ]_vars

C21_Witness ==
    /\ calls # <<>>
    /\ calls[1].op = "generate_content"
    /\ calls[1].turn = 1
    /\ Len(calls[1].arg.history) = 3
    /\ calls[1].arg.history[3] = UserRec(Obs("written", ""))
    /\ fs[Target(PathStr(PathA))] = "new"

\* C22: the step that starts the loop calls search_codebase once, as the
\* last call before the loop, and leaves a history of one user record
\* holding the system prompt, the task and what that call returned; when
\* the index raises the call returns the error text and the run goes on;
\* no step goes back to the start; the first generation call is given
\* that one-record history.
C22_SeedRecord ==
    [][ /\ pc' # "START"
        /\ (pc = "START" /\ ~ConfigurationFails(calls'[1].arg))
             => /\ pc' = "AWAIT_RESPONSE"
                /\ CallsOf("search_codebase")' = {Len(calls')}
                /\ collection = "error"
                     => calls'[Len(calls')].arg.kind =
                          "Error searching codebase"
                /\ collection = "ok"
                     => calls'[Len(calls')].arg.kind \notin ErrorObservations
                /\ Len(history') = 1
                /\ history'[1].role = "user"
                /\ Len(history'[1].parts) = 2
                /\ history'[1].parts[1].t = "system_prompt"
                /\ history'[1].parts[2].t = "task_and_search"
                /\ history'[1].parts[2].task = Str("task")
                /\ history'[1].parts[2].search = calls'[Len(calls')].arg
        /\ (generations = 0 /\ generations' = 1)
             => /\ pc = "AWAIT_RESPONSE"
                /\ calls'[1].op = "generate_content"
                /\ calls'[1].arg.history = history
                /\ Len(history) = 1
                /\ history[1].role = "user"
                /\ CallsOf("search_codebase") = {Len(calls)}
                /\ history[1].parts[2].search = LastCall.arg
                /\ ~Called("generate_content") ]_vars

C22_Witness ==
    /\ generations = 1
    /\ collection = "error"
    /\ pc = "APPROVE"
    /\ calls[1].op = "generate_content"
    /\ Len(calls[1].arg.history) = 1
    /\ calls[1].arg.history[1].parts[2].search =
         Obs("Error searching codebase", "")

\* main_loop has stopped
Ended ==
    pc \in {"CONFIG_ERROR", "DONE", "CANCELLED", "BUDGET_EXHAUSTED", "FATAL",
            "NO_TOOL", "UNCAUGHT"}

\* how far the run has come: the turns used up, and the place in the turn
Progress ==
    5 * turn + ( CASE pc = "START"          -> 0
                   [] pc = "AWAIT_RESPONSE" -> 1
                   [] pc = "RECOVER"        -> 2
                   [] pc = "APPROVE"        -> 3
                   [] pc = "DISPATCH"       -> 4
                   [] OTHER                 -> 5 )

\* C23: every step takes the run further through a budget of max_turns
\* turns, so no run cycles through recovery or rejection turns; a run that
\* has not stopped always has a step to take, one that has stopped has
\* none; and every run in which each blocking call comes back stops.
C23_Terminates ==
    /\ [][Progress' > Progress]_vars
    /\ [](Progress <= 5 * max_turns + 5)
    /\ [](Ended <=> ~ENABLED Next)
    /\ <>Ended

\* a run that used its whole budget on decode failures and rejections
C23_Witness ==
    /\ pc = "BUDGET_EXHAUSTED"
    /\ turn = MaxTurns - 1
    /\ turn > 0
    /\ dispatches = 0
    /\ history[Len(history)] \in {UserRec(Rejected), UserRec(NotValidJson),
                                  UserRec(CorrectionFailed)}

\* the roles of h alternate, from user to user
Alternates(h) ==
    /\ Len(h) % 2 = 1
    /\ \A i \in 1..Len(h) :
         h[i].role = IF i % 2 = 1 THEN "user" ELSE "model"

\* C24: the history every generation call is given has odd length and
\* roles alternating from user to user; so has the history at every later
\* point of the run, and it holds one model record and one user record for
\* each turn that went on to the next.
C24_RolesAlternate ==
    /\ pc \notin {"START", "CONFIG_ERROR"}
         => /\ Alternates(history)
            /\ Len(history) = 1 + 2 * turn
    /\ (calls # <<>> /\ calls[1].op = "generate_content")
         => /\ Alternates(calls[1].arg.history)
            /\ Len(calls[1].arg.history) = 1 + 2 * calls[1].turn
            /\ AtLoopHead
                 => /\ turn = calls[1].turn + 1
                    /\ SubSeq(history, 1, Len(history) - 2)
                         = calls[1].arg.history
                    /\ LastTwo(history)[1].role = "model"
                    /\ LastTwo(history)[2].role = "user"

C24_Witness ==
    /\ calls # <<>>
    /\ calls[1].op = "generate_content"
    /\ Len(calls[1].arg.history) = 3
    /\ calls[1].arg.history[3] = UserRec(IssueProcessing)
    /\ pc = "AWAIT_RESPONSE"
    /\ history[5] = UserRec(CorrectionFailed)

\* C25: a turn that ends the run in DONE, CANCELLED, FATAL or on a missing
\* tool name leaves the history as its generation call found it: nothing is
\* appended, the last response is not recorded.
C25_EndingTurnAppendsNothing ==
    pc \in {"DONE", "CANCELLED", "FATAL", "NO_TOOL"}
    => /\ calls[1].op = "generate_content"
       /\ history = calls[1].arg.history
       /\ Len(history) = 1 + 2 * turn
       /\ turn = calls[1].turn
       /\ pc \in {"DONE", "NO_TOOL"}
            => history[Len(history)] # ModelRec(Bare(response_json))

C25_Witness ==
    /\ pc = "NO_TOOL"
    /\ turn = 1
    /\ Len(history) = 3

C25_WitnessDone ==
    /\ pc = "DONE"
    /\ turn = 1
    /\ Len(history) = 3

\* C26 (as claimed): the diff preview shown before the approval opens no
\* file outside the project root and raises nothing that ends the loop.
C26_PreviewStaysInsideRoot ==
    \A i \in 1..Len(calls) :
       calls[i].op = "display_diff"
       => /\ \A q \in calls[i].arg :
               q = CODEBASE_DIR \/ StartsWith(q, CODEBASE_DIR \o <<"/">>)
          /\ i = Len(calls) => pc # "UNCAUGHT"

====
